---- MODULE Spec2Model ----
(***************************************************************************)
(* Lazy, cancel-on-drop task handles of the `tasky` crate.                 *)
(*                                                                         *)
(*   src/src/lib.rs     Builder<Fut, K>, JoinHandle<Fut, K>, K in          *)
(*                      {Local, NonLocal}, with detach()                   *)
(*   src/src/future.rs  the earlier Builder<Fut>, JoinHandle<Fut>          *)
(*                                                                         *)
(* A handle slot h goes through the life of one Rust value: a Builder made *)
(* by spawn/spawn_local, renamed by name(), turned into a JoinHandle by    *)
(* into_future(), then polled, dropped or detached.  The executor          *)
(* (async_std::task) is the environment: it hands out worker handles,      *)
(* advances the computation, answers polls and receives cancel requests.   *)
(***************************************************************************)
EXTENDS Naturals, Sequences, FiniteSets

\* Bound: the number of poll() calls followed on one handle.
MaxDrives == 3

\* The handle slots followed side by side.
Handles == {1, 2}

\* The values a computation returns (the tests return "nori is a horse").
Values == {"nori is a horse", "chashu is a cat"}

\* The names given to name() (the tests give "meow").
Names == {"meow"}

\* Option<T>: None is the empty sequence, Some(x) the one-element sequence.
None == << >>
Some(x) == << x >>
IsSome(o) == Len(o) = 1
Unwrap(o) == o[1]

VARIABLES
    phase,      \* h -> "none" | "builder" | "handle" | "dropped" | "detached"
    kind,       \* h -> "unset" | "Local" | "NonLocal" | "Future" (the type of the value)
    comp,       \* h -> the value the computation given to spawn returns
    builder,    \* h -> Option<Builder>: the Builder, then JoinHandle.builder
    handle,     \* h -> Option<worker id>: JoinHandle.handle
    workers,    \* the executor's tasks, in submission order
    calls,      \* h -> the submit and cancel calls made on the executor for h
    yielded,    \* h -> the values poll() has returned in Poll::Ready
    last,       \* h -> what the last poll() did: "none" | "Pending" | "Ready" | "panic"
    drives,     \* h -> the number of poll() calls
    dropped     \* h -> how drop() ended: "no" | "ok" | "panic"

vars == << phase, kind, comp, builder, handle, workers, calls, yielded, last,
           drives, dropped >>

(***************************************************************************)
(* The executor, as far as the handle uses it.                             *)
(***************************************************************************)

\* task::Builder::spawn / task::Builder::local, when it returns Ok(handle).
ExecSubmit(ws, op, b, h) ==
    Append(ws, [op |-> op, name |-> b.name, value |-> b.future, owner |-> h,
                st |-> "running", cancels |-> 0, latePolls |-> 0])

\* A task submitted to the pool runs in parallel with the caller: it may have
\* finished by the time the call that submitted it polls it (fast).  A task
\* submitted with local() runs on the caller's own thread and cannot.
ExecRace(ws, fast) ==
    IF fast THEN [ws EXCEPT ![Len(ws)].st = "done"] ELSE ws

\* What polling worker handle w returns.  Its output is moved out by the poll
\* that returns it; a later poll has no output left to return.
LateOutcomes == {"panic", "Pending"}
ExecPollOutcome(w, late) ==
    IF w.st = "running" THEN "Pending"
    ELSE IF w.st = "done" THEN "Ready"
    ELSE late

\* The worker after that poll.
ExecPolled(w) ==
    IF w.st = "running" THEN w
    ELSE IF w.st = "done" THEN [w EXCEPT !.st = "taken"]
    ELSE [w EXCEPT !.latePolls = @ + 1]

\* task::JoinHandle::cancel: stops a running task, does nothing to a finished one.
ExecCancel(w) ==
    [w EXCEPT !.cancels = @ + 1,
              !.st = IF @ = "running" THEN "cancelled" ELSE @]

\* The answers the executor can give within one poll() of handle h: whether it
\* accepts a submission and whether the pooled task wins the race (both only
\* asked when the builder is still there to submit), and what a poll of a
\* worker handle returns whose output was already taken.
SubmitAnswers(h) == IF IsSome(builder[h]) THEN BOOLEAN ELSE {TRUE}
RaceAnswers(h) == IF IsSome(builder[h]) THEN BOOLEAN ELSE {FALSE}
LateAnswers(h) ==
    IF IsSome(handle[h]) /\ workers[Unwrap(handle[h])].st \notin {"running", "done"}
    THEN LateOutcomes
    ELSE {"panic"}

\* A submit or cancel call as the executor sees it.
SubmitCall(op, b, w, ok) == [op |-> op, name |-> b.name, w |-> w, ok |-> ok]
CancelCall(w) == [op |-> "cancel", name |-> None, w |-> w, ok |-> TRUE]

Init ==
    /\ phase = [h \in Handles |-> "none"]
    /\ kind = [h \in Handles |-> "unset"]
    /\ comp = [h \in Handles |-> "unset"]
    /\ builder = [h \in Handles |-> None]
    /\ handle = [h \in Handles |-> None]
    /\ workers = << >>
    /\ calls = [h \in Handles |-> << >>]
    /\ yielded = [h \in Handles |-> << >>]
    /\ last = [h \in Handles |-> "none"]
    /\ drives = [h \in Handles |-> 0]
    /\ dropped = [h \in Handles |-> "no"]

(***************************************************************************)
(* src/src/lib.rs                                                          *)
(***************************************************************************)

\* FutureExt::spawn: a NonLocal builder around the future.
Spawn(h, v) ==
    /\ phase[h] = "none"
    /\ phase' = [phase EXCEPT ![h] = "builder"]
    /\ kind' = [kind EXCEPT ![h] = "NonLocal"]
    /\ comp' = [comp EXCEPT ![h] = v]
    /\ builder' = [builder EXCEPT ![h] = Some([future |-> v, name |-> None])]
    /\ UNCHANGED << handle, workers, calls, yielded, last, drives, dropped >>

\* FutureExt::spawn_local: a Local builder around the future.
SpawnLocal(h, v) ==
    /\ phase[h] = "none"
    /\ phase' = [phase EXCEPT ![h] = "builder"]
    /\ kind' = [kind EXCEPT ![h] = "Local"]
    /\ comp' = [comp EXCEPT ![h] = v]
    /\ builder' = [builder EXCEPT ![h] = Some([future |-> v, name |-> None])]
    /\ UNCHANGED << handle, workers, calls, yielded, last, drives, dropped >>

\* Variant of Name that stores the name in the builder's future field as well.
NameOverwritesFuture(h, n) ==
    /\ phase[h] = "builder"
    /\ kind[h] \in {"Local", "NonLocal"}
    /\ builder' = [builder EXCEPT ![h] = Some([Unwrap(@) EXCEPT !.name = Some(n), !.future = n])]
    /\ UNCHANGED << phase, kind, comp, handle, workers, calls, yielded, last,
                    drives, dropped >>

\* Builder::name: sets the name in the task builder, returns the builder.
Name(h, n) ==
    /\ phase[h] = "builder"
    /\ kind[h] \in {"Local", "NonLocal"}
    /\ builder' = [builder EXCEPT ![h] = Some([Unwrap(@) EXCEPT !.name = Some(n)])]
    /\ UNCHANGED << phase, kind, comp, handle, workers, calls, yielded, last,
                    drives, dropped >>

\* Variant of IntoFutureNonLocal that submits the future when the handle is built.
IntoFutureNonLocalEager(h) ==
    /\ phase[h] = "builder"
    /\ kind[h] = "NonLocal"
    /\ phase' = [phase EXCEPT ![h] = "handle"]
    /\ builder' = [builder EXCEPT ![h] = None]
    /\ workers' = ExecSubmit(workers, "spawn", Unwrap(builder[h]), h)
    /\ handle' = [handle EXCEPT ![h] = Some(Len(workers'))]
    /\ calls' = [calls EXCEPT ![h] =
                    Append(@, SubmitCall("spawn", Unwrap(builder[h]), Len(workers'), TRUE))]
    /\ UNCHANGED << kind, comp, yielded, last, drives, dropped >>

\* IntoFuture for Builder<Fut, NonLocal>: JoinHandle { builder: Some(self), handle: None }.
IntoFutureNonLocal(h) ==
    /\ phase[h] = "builder"
    /\ kind[h] = "NonLocal"
    /\ phase' = [phase EXCEPT ![h] = "handle"]
    /\ builder' = [builder EXCEPT ![h] = Some(Unwrap(builder[h]))]
    /\ handle' = [handle EXCEPT ![h] = None]
    /\ UNCHANGED << kind, comp, workers, calls, yielded, last, drives, dropped >>

\* IntoFuture for Builder<Fut, Local>: JoinHandle { builder: Some(self), handle: None }.
IntoFutureLocal(h) ==
    /\ phase[h] = "builder"
    /\ kind[h] = "Local"
    /\ phase' = [phase EXCEPT ![h] = "handle"]
    /\ builder' = [builder EXCEPT ![h] = Some(Unwrap(builder[h]))]
    /\ handle' = [handle EXCEPT ![h] = None]
    /\ UNCHANGED << kind, comp, workers, calls, yielded, last, drives, dropped >>

\* Variant of PollLocal that polls the executor's newest worker handle instead of
\* the one in this handle's slot.
PollLocalPollsNewest(h) ==
    /\ phase[h] = "handle"
    /\ kind[h] = "Local"
    /\ drives[h] < MaxDrives
    /\ \E ok \in SubmitAnswers(h), late \in LateAnswers(h) :
        LET taken == builder[h]
            submits == IsSome(taken)
            ws1 == IF submits /\ ok
                   THEN ExecSubmit(workers, "local", Unwrap(taken), h)
                   ELSE workers
            hd1 == IF submits /\ ok THEN Some(Len(ws1)) ELSE handle[h]
            cs1 == IF submits
                   THEN Append(calls[h], SubmitCall("local", Unwrap(taken),
                                                    IF ok THEN Len(ws1) ELSE 0, ok))
                   ELSE calls[h]
            panic == (submits /\ ~ok) \/ ~IsSome(hd1)
            w == Len(ws1)
            out == IF panic THEN "panic" ELSE ExecPollOutcome(ws1[w], late)
        IN  /\ builder' = [builder EXCEPT ![h] = None]
            /\ handle' = [handle EXCEPT ![h] = hd1]
            /\ calls' = [calls EXCEPT ![h] = cs1]
            /\ workers' = IF panic THEN ws1 ELSE [ws1 EXCEPT ![w] = ExecPolled(@)]
            /\ yielded' = IF out = "Ready"
                          THEN [yielded EXCEPT ![h] = Append(@, ws1[w].value)]
                          ELSE yielded
            /\ last' = [last EXCEPT ![h] = out]
    /\ drives' = [drives EXCEPT ![h] = @ + 1]
    /\ UNCHANGED << phase, kind, comp, dropped >>

\* Variant of PollLocal that submits to the pool with spawn(), as the NonLocal
\* poll does.
PollLocalSpawns(h) ==
    /\ phase[h] = "handle"
    /\ kind[h] = "Local"
    /\ drives[h] < MaxDrives
    /\ \E ok \in SubmitAnswers(h), late \in LateAnswers(h) :
        LET taken == builder[h]
            submits == IsSome(taken)
            ws1 == IF submits /\ ok
                   THEN ExecSubmit(workers, "spawn", Unwrap(taken), h)
                   ELSE workers
            hd1 == IF submits /\ ok THEN Some(Len(ws1)) ELSE handle[h]
            cs1 == IF submits
                   THEN Append(calls[h], SubmitCall("spawn", Unwrap(taken),
                                                    IF ok THEN Len(ws1) ELSE 0, ok))
                   ELSE calls[h]
            panic == (submits /\ ~ok) \/ ~IsSome(hd1)
            w == Unwrap(hd1)
            out == IF panic THEN "panic" ELSE ExecPollOutcome(ws1[w], late)
        IN  /\ builder' = [builder EXCEPT ![h] = None]
            /\ handle' = [handle EXCEPT ![h] = hd1]
            /\ calls' = [calls EXCEPT ![h] = cs1]
            /\ workers' = IF panic THEN ws1 ELSE [ws1 EXCEPT ![w] = ExecPolled(@)]
            /\ yielded' = IF out = "Ready"
                          THEN [yielded EXCEPT ![h] = Append(@, ws1[w].value)]
                          ELSE yielded
            /\ last' = [last EXCEPT ![h] = out]
    /\ drives' = [drives EXCEPT ![h] = @ + 1]
    /\ UNCHANGED << phase, kind, comp, dropped >>

\* Variant of PollLocal that reports the computation's value as Ready while the
\* worker is still running.
PollLocalReadyEarly(h) ==
    /\ phase[h] = "handle"
    /\ kind[h] = "Local"
    /\ drives[h] < MaxDrives
    /\ \E ok \in SubmitAnswers(h), late \in LateAnswers(h) :
        LET taken == builder[h]
            submits == IsSome(taken)
            ws1 == IF submits /\ ok
                   THEN ExecSubmit(workers, "local", Unwrap(taken), h)
                   ELSE workers
            hd1 == IF submits /\ ok THEN Some(Len(ws1)) ELSE handle[h]
            cs1 == IF submits
                   THEN Append(calls[h], SubmitCall("local", Unwrap(taken),
                                                    IF ok THEN Len(ws1) ELSE 0, ok))
                   ELSE calls[h]
            panic == (submits /\ ~ok) \/ ~IsSome(hd1)
            w == Unwrap(hd1)
            out == IF panic THEN "panic"
                   ELSE IF ws1[w].st = "running" THEN "Ready"
                   ELSE ExecPollOutcome(ws1[w], late)
        IN  /\ builder' = [builder EXCEPT ![h] = None]
            /\ handle' = [handle EXCEPT ![h] = hd1]
            /\ calls' = [calls EXCEPT ![h] = cs1]
            /\ workers' = IF panic THEN ws1 ELSE [ws1 EXCEPT ![w] = ExecPolled(@)]
            /\ yielded' = IF out = "Ready"
                          THEN [yielded EXCEPT ![h] = Append(@, ws1[w].value)]
                          ELSE yielded
            /\ last' = [last EXCEPT ![h] = out]
    /\ drives' = [drives EXCEPT ![h] = @ + 1]
    /\ UNCHANGED << phase, kind, comp, dropped >>

\* Variant of PollLocal that answers a failed submission with Pending instead of
\* unwrapping it.
PollLocalSwallowsFailure(h) ==
    /\ phase[h] = "handle"
    /\ kind[h] = "Local"
    /\ drives[h] < MaxDrives
    /\ \E ok \in SubmitAnswers(h), late \in LateAnswers(h) :
        LET taken == builder[h]
            submits == IsSome(taken)
            ws1 == IF submits /\ ok
                   THEN ExecSubmit(workers, "local", Unwrap(taken), h)
                   ELSE workers
            hd1 == IF submits /\ ok THEN Some(Len(ws1)) ELSE handle[h]
            cs1 == IF submits
                   THEN Append(calls[h], SubmitCall("local", Unwrap(taken),
                                                    IF ok THEN Len(ws1) ELSE 0, ok))
                   ELSE calls[h]
            panic == (submits /\ ~ok) \/ ~IsSome(hd1)
            w == Unwrap(hd1)
            out == IF submits /\ ~ok THEN "Pending"
                   ELSE IF panic THEN "panic"
                   ELSE ExecPollOutcome(ws1[w], late)
        IN  /\ builder' = [builder EXCEPT ![h] = None]
            /\ handle' = [handle EXCEPT ![h] = hd1]
            /\ calls' = [calls EXCEPT ![h] = cs1]
            /\ workers' = IF panic THEN ws1 ELSE [ws1 EXCEPT ![w] = ExecPolled(@)]
            /\ yielded' = IF out = "Ready"
                          THEN [yielded EXCEPT ![h] = Append(@, ws1[w].value)]
                          ELSE yielded
            /\ last' = [last EXCEPT ![h] = out]
    /\ drives' = [drives EXCEPT ![h] = @ + 1]
    /\ UNCHANGED << phase, kind, comp, dropped >>

\* Variant of PollLocal that takes the worker handle out of the slot to poll it
\* (this.handle.take() for this.handle.as_pin_mut()).
PollLocalTakesHandle(h) ==
    /\ phase[h] = "handle"
    /\ kind[h] = "Local"
    /\ drives[h] < MaxDrives
    /\ \E ok \in SubmitAnswers(h), late \in LateAnswers(h) :
        LET taken == builder[h]
            submits == IsSome(taken)
            ws1 == IF submits /\ ok
                   THEN ExecSubmit(workers, "local", Unwrap(taken), h)
                   ELSE workers
            hd1 == IF submits /\ ok THEN Some(Len(ws1)) ELSE handle[h]
            cs1 == IF submits
                   THEN Append(calls[h], SubmitCall("local", Unwrap(taken),
                                                    IF ok THEN Len(ws1) ELSE 0, ok))
                   ELSE calls[h]
            panic == (submits /\ ~ok) \/ ~IsSome(hd1)
            w == Unwrap(hd1)
            out == IF panic THEN "panic" ELSE ExecPollOutcome(ws1[w], late)
        IN  /\ builder' = [builder EXCEPT ![h] = None]
            /\ handle' = [handle EXCEPT ![h] = None]
            /\ calls' = [calls EXCEPT ![h] = cs1]
            /\ workers' = IF panic THEN ws1 ELSE [ws1 EXCEPT ![w] = ExecPolled(@)]
            /\ yielded' = IF out = "Ready"
                          THEN [yielded EXCEPT ![h] = Append(@, ws1[w].value)]
                          ELSE yielded
            /\ last' = [last EXCEPT ![h] = out]
    /\ drives' = [drives EXCEPT ![h] = @ + 1]
    /\ UNCHANGED << phase, kind, comp, dropped >>

\* Future for JoinHandle<Fut, Local>::poll.
\*   if let Some(builder) = this.builder.take() {
\*       this.handle.replace(builder.builder.local(builder.future).unwrap());
\*   }
\*   Pin::new(&mut this.handle.as_pin_mut().unwrap()).poll(cx)
\* ok is whether the executor accepts the submission, late what it answers to a
\* poll of a worker handle whose output was already taken.
PollLocal(h) ==
    /\ phase[h] = "handle"
    /\ kind[h] = "Local"
    /\ drives[h] < MaxDrives
    /\ \E ok \in SubmitAnswers(h), late \in LateAnswers(h) :
        LET taken == builder[h]
            submits == IsSome(taken)
            ws1 == IF submits /\ ok
                   THEN ExecSubmit(workers, "local", Unwrap(taken), h)
                   ELSE workers
            hd1 == IF submits /\ ok THEN Some(Len(ws1)) ELSE handle[h]
            cs1 == IF submits
                   THEN Append(calls[h], SubmitCall("local", Unwrap(taken),
                                                    IF ok THEN Len(ws1) ELSE 0, ok))
                   ELSE calls[h]
            panic == (submits /\ ~ok) \/ ~IsSome(hd1)
            w == Unwrap(hd1)
            out == IF panic THEN "panic" ELSE ExecPollOutcome(ws1[w], late)
        IN  /\ builder' = [builder EXCEPT ![h] = None]
            /\ handle' = [handle EXCEPT ![h] = hd1]
            /\ calls' = [calls EXCEPT ![h] = cs1]
            /\ workers' = IF panic THEN ws1 ELSE [ws1 EXCEPT ![w] = ExecPolled(@)]
            /\ yielded' = IF out = "Ready"
                          THEN [yielded EXCEPT ![h] = Append(@, ws1[w].value)]
                          ELSE yielded
            /\ last' = [last EXCEPT ![h] = out]
    /\ drives' = [drives EXCEPT ![h] = @ + 1]
    /\ UNCHANGED << phase, kind, comp, dropped >>

\* Variant of PollNonLocal that reads the builder without taking it out of the
\* handle (this.builder.as_ref() for this.builder.take()).
PollNonLocalKeepsBuilder(h) ==
    /\ phase[h] = "handle"
    /\ kind[h] = "NonLocal"
    /\ drives[h] < MaxDrives
    /\ \E ok \in SubmitAnswers(h), fast \in RaceAnswers(h), late \in LateAnswers(h) :
        LET taken == builder[h]
            submits == IsSome(taken)
            ws1 == IF submits /\ ok
                   THEN ExecRace(ExecSubmit(workers, "spawn", Unwrap(taken), h), fast)
                   ELSE workers
            hd1 == IF submits /\ ok THEN Some(Len(ws1)) ELSE handle[h]
            cs1 == IF submits
                   THEN Append(calls[h], SubmitCall("spawn", Unwrap(taken),
                                                    IF ok THEN Len(ws1) ELSE 0, ok))
                   ELSE calls[h]
            panic == (submits /\ ~ok) \/ ~IsSome(hd1)
            w == Unwrap(hd1)
            out == IF panic THEN "panic" ELSE ExecPollOutcome(ws1[w], late)
        IN  /\ builder' = builder
            /\ handle' = [handle EXCEPT ![h] = hd1]
            /\ calls' = [calls EXCEPT ![h] = cs1]
            /\ workers' = IF panic THEN ws1 ELSE [ws1 EXCEPT ![w] = ExecPolled(@)]
            /\ yielded' = IF out = "Ready"
                          THEN [yielded EXCEPT ![h] = Append(@, ws1[w].value)]
                          ELSE yielded
            /\ last' = [last EXCEPT ![h] = out]
    /\ drives' = [drives EXCEPT ![h] = @ + 1]
    /\ UNCHANGED << phase, kind, comp, dropped >>

\* Variant of PollNonLocal whose first poll only submits and returns Pending,
\* leaving the poll of the worker handle to the next call.
PollNonLocalDefersPoll(h) ==
    /\ phase[h] = "handle"
    /\ kind[h] = "NonLocal"
    /\ drives[h] < MaxDrives
    /\ \E ok \in SubmitAnswers(h), fast \in RaceAnswers(h), late \in LateAnswers(h) :
        LET taken == builder[h]
            submits == IsSome(taken)
            ws1 == IF submits /\ ok
                   THEN ExecRace(ExecSubmit(workers, "spawn", Unwrap(taken), h), fast)
                   ELSE workers
            hd1 == IF submits /\ ok THEN Some(Len(ws1)) ELSE handle[h]
            cs1 == IF submits
                   THEN Append(calls[h], SubmitCall("spawn", Unwrap(taken),
                                                    IF ok THEN Len(ws1) ELSE 0, ok))
                   ELSE calls[h]
            panic == (submits /\ ~ok) \/ ~IsSome(hd1)
            w == Unwrap(hd1)
            out == IF panic THEN "panic"
                   ELSE IF submits THEN "Pending"
                   ELSE ExecPollOutcome(ws1[w], late)
        IN  /\ builder' = [builder EXCEPT ![h] = None]
            /\ handle' = [handle EXCEPT ![h] = hd1]
            /\ calls' = [calls EXCEPT ![h] = cs1]
            /\ workers' = IF panic \/ submits THEN ws1 ELSE [ws1 EXCEPT ![w] = ExecPolled(@)]
            /\ yielded' = IF out = "Ready"
                          THEN [yielded EXCEPT ![h] = Append(@, ws1[w].value)]
                          ELSE yielded
            /\ last' = [last EXCEPT ![h] = out]
    /\ drives' = [drives EXCEPT ![h] = @ + 1]
    /\ UNCHANGED << phase, kind, comp, dropped >>

\* Future for JoinHandle<Fut, NonLocal>::poll: the same, submitting with spawn to
\* the pool, where the task may finish (fast) before this call polls it.
PollNonLocal(h) ==
    /\ phase[h] = "handle"
    /\ kind[h] = "NonLocal"
    /\ drives[h] < MaxDrives
    /\ \E ok \in SubmitAnswers(h), fast \in RaceAnswers(h), late \in LateAnswers(h) :
        LET taken == builder[h]
            submits == IsSome(taken)
            ws1 == IF submits /\ ok
                   THEN ExecRace(ExecSubmit(workers, "spawn", Unwrap(taken), h), fast)
                   ELSE workers
            hd1 == IF submits /\ ok THEN Some(Len(ws1)) ELSE handle[h]
            cs1 == IF submits
                   THEN Append(calls[h], SubmitCall("spawn", Unwrap(taken),
                                                    IF ok THEN Len(ws1) ELSE 0, ok))
                   ELSE calls[h]
            panic == (submits /\ ~ok) \/ ~IsSome(hd1)
            w == Unwrap(hd1)
            out == IF panic THEN "panic" ELSE ExecPollOutcome(ws1[w], late)
        IN  /\ builder' = [builder EXCEPT ![h] = None]
            /\ handle' = [handle EXCEPT ![h] = hd1]
            /\ calls' = [calls EXCEPT ![h] = cs1]
            /\ workers' = IF panic THEN ws1 ELSE [ws1 EXCEPT ![w] = ExecPolled(@)]
            /\ yielded' = IF out = "Ready"
                          THEN [yielded EXCEPT ![h] = Append(@, ws1[w].value)]
                          ELSE yielded
            /\ last' = [last EXCEPT ![h] = out]
    /\ drives' = [drives EXCEPT ![h] = @ + 1]
    /\ UNCHANGED << phase, kind, comp, dropped >>

\* Variant of Drop that takes the worker handle out and lets it go without cancel().
DropNoCancel(h) ==
    /\ phase[h] = "handle"
    /\ kind[h] \in {"Local", "NonLocal"}
    /\ phase' = [phase EXCEPT ![h] = "dropped"]
    /\ handle' = [handle EXCEPT ![h] = None]
    /\ dropped' = [dropped EXCEPT ![h] = IF IsSome(handle[h]) THEN "ok" ELSE "panic"]
    /\ UNCHANGED << kind, comp, builder, workers, calls, yielded, last, drives >>

\* Variant of Drop that submits a still pending builder so that there is a worker
\* handle to cancel.
DropSubmitsPending(h) ==
    /\ phase[h] = "handle"
    /\ kind[h] \in {"Local", "NonLocal"}
    /\ phase' = [phase EXCEPT ![h] = "dropped"]
    /\ handle' = [handle EXCEPT ![h] = None]
    /\ builder' = [builder EXCEPT ![h] = None]
    /\ LET submits == IsSome(builder[h])
           ws1 == IF submits
                  THEN ExecSubmit(workers, "spawn", Unwrap(builder[h]), h)
                  ELSE workers
           hd1 == IF submits THEN Some(Len(ws1)) ELSE handle[h]
           cs1 == IF submits
                  THEN Append(calls[h], SubmitCall("spawn", Unwrap(builder[h]), Len(ws1), TRUE))
                  ELSE calls[h]
       IN  IF IsSome(hd1)
           THEN /\ workers' = [ws1 EXCEPT ![Unwrap(hd1)] = ExecCancel(@)]
                /\ calls' = [calls EXCEPT ![h] = Append(cs1, CancelCall(Unwrap(hd1)))]
                /\ dropped' = [dropped EXCEPT ![h] = "ok"]
           ELSE /\ dropped' = [dropped EXCEPT ![h] = "panic"]
                /\ UNCHANGED << workers, calls >>
    /\ UNCHANGED << kind, comp, yielded, last, drives >>

\* Variant of Drop that cancels only a worker whose output was not taken yet.
DropSkipsFinished(h) ==
    /\ phase[h] = "handle"
    /\ kind[h] \in {"Local", "NonLocal"}
    /\ phase' = [phase EXCEPT ![h] = "dropped"]
    /\ handle' = [handle EXCEPT ![h] = None]
    /\ IF IsSome(handle[h]) /\ workers[Unwrap(handle[h])].st # "taken"
       THEN /\ workers' = [workers EXCEPT ![Unwrap(handle[h])] = ExecCancel(@)]
            /\ calls' = [calls EXCEPT ![h] = Append(@, CancelCall(Unwrap(handle[h])))]
            /\ dropped' = [dropped EXCEPT ![h] = "ok"]
       ELSE /\ dropped' = [dropped EXCEPT ![h] = IF IsSome(handle[h]) THEN "ok" ELSE "panic"]
            /\ UNCHANGED << workers, calls >>
    /\ UNCHANGED << kind, comp, builder, yielded, last, drives >>

\* PinnedDrop for JoinHandle<Fut, K>::drop.
\*   let handle = this.handle.take().unwrap();
\*   let _ = handle.cancel();
\* The unwrap panics when the handle slot is empty.
Drop(h) ==
    /\ phase[h] = "handle"
    /\ kind[h] \in {"Local", "NonLocal"}
    /\ phase' = [phase EXCEPT ![h] = "dropped"]
    /\ handle' = [handle EXCEPT ![h] = None]
    /\ IF IsSome(handle[h])
       THEN /\ workers' = [workers EXCEPT ![Unwrap(handle[h])] = ExecCancel(@)]
            /\ calls' = [calls EXCEPT ![h] = Append(@, CancelCall(Unwrap(handle[h])))]
            /\ dropped' = [dropped EXCEPT ![h] = "ok"]
       ELSE /\ dropped' = [dropped EXCEPT ![h] = "panic"]
            /\ UNCHANGED << workers, calls >>
    /\ UNCHANGED << kind, comp, builder, yielded, last, drives >>

\* Variant of Detach that lets the handle go the way drop does, cancelling the
\* worker handle if there is one.
DetachCancels(h) ==
    /\ phase[h] = "handle"
    /\ kind[h] \in {"Local", "NonLocal"}
    /\ phase' = [phase EXCEPT ![h] = "detached"]
    /\ IF IsSome(handle[h])
       THEN /\ workers' = [workers EXCEPT ![Unwrap(handle[h])] = ExecCancel(@)]
            /\ calls' = [calls EXCEPT ![h] = Append(@, CancelCall(Unwrap(handle[h])))]
       ELSE UNCHANGED << workers, calls >>
    /\ UNCHANGED << kind, comp, builder, handle, yielded, last, drives, dropped >>

\* JoinHandle::detach: std::mem::forget(self), so drop never runs.
Detach(h) ==
    /\ phase[h] = "handle"
    /\ kind[h] \in {"Local", "NonLocal"}
    /\ phase' = [phase EXCEPT ![h] = "detached"]
    /\ UNCHANGED << kind, comp, builder, handle, workers, calls, yielded, last,
                    drives, dropped >>

(***************************************************************************)
(* src/src/future.rs                                                       *)
(***************************************************************************)

\* FutureExt::spawn.
FutureSpawn(h, v) ==
    /\ phase[h] = "none"
    /\ phase' = [phase EXCEPT ![h] = "builder"]
    /\ kind' = [kind EXCEPT ![h] = "Future"]
    /\ comp' = [comp EXCEPT ![h] = v]
    /\ builder' = [builder EXCEPT ![h] = Some([future |-> v, name |-> None])]
    /\ UNCHANGED << handle, workers, calls, yielded, last, drives, dropped >>

\* Builder::name.
FutureName(h, n) ==
    /\ phase[h] = "builder"
    /\ kind[h] = "Future"
    /\ builder' = [builder EXCEPT ![h] = Some([Unwrap(@) EXCEPT !.name = Some(n)])]
    /\ UNCHANGED << phase, kind, comp, handle, workers, calls, yielded, last,
                    drives, dropped >>

\* IntoFuture for Builder<Fut>.
FutureIntoFuture(h) ==
    /\ phase[h] = "builder"
    /\ kind[h] = "Future"
    /\ phase' = [phase EXCEPT ![h] = "handle"]
    /\ builder' = [builder EXCEPT ![h] = Some(Unwrap(builder[h]))]
    /\ handle' = [handle EXCEPT ![h] = None]
    /\ UNCHANGED << kind, comp, workers, calls, yielded, last, drives, dropped >>

\* Variant of FuturePoll with a Finished state of its own: once it has yielded
\* Ready it no longer polls the worker handle.
FuturePollFused(h) ==
    /\ phase[h] = "handle"
    /\ kind[h] = "Future"
    /\ drives[h] < MaxDrives
    /\ \E ok \in SubmitAnswers(h), fast \in RaceAnswers(h), late \in LateAnswers(h) :
        LET taken == builder[h]
            submits == IsSome(taken)
            ws1 == IF submits /\ ok
                   THEN ExecRace(ExecSubmit(workers, "spawn", Unwrap(taken), h), fast)
                   ELSE workers
            hd1 == IF submits /\ ok THEN Some(Len(ws1)) ELSE handle[h]
            cs1 == IF submits
                   THEN Append(calls[h], SubmitCall("spawn", Unwrap(taken),
                                                    IF ok THEN Len(ws1) ELSE 0, ok))
                   ELSE calls[h]
            panic == (submits /\ ~ok) \/ ~IsSome(hd1) \/ yielded[h] # << >>
            w == Unwrap(hd1)
            out == IF panic THEN "panic" ELSE ExecPollOutcome(ws1[w], late)
        IN  /\ builder' = [builder EXCEPT ![h] = None]
            /\ handle' = [handle EXCEPT ![h] = hd1]
            /\ calls' = [calls EXCEPT ![h] = cs1]
            /\ workers' = IF panic THEN ws1 ELSE [ws1 EXCEPT ![w] = ExecPolled(@)]
            /\ yielded' = IF out = "Ready"
                          THEN [yielded EXCEPT ![h] = Append(@, ws1[w].value)]
                          ELSE yielded
            /\ last' = [last EXCEPT ![h] = out]
    /\ drives' = [drives EXCEPT ![h] = @ + 1]
    /\ UNCHANGED << phase, kind, comp, dropped >>

\* Variant of FuturePoll that puts the builder back when the submission failed, so
\* that the next poll submits again.
FuturePollRestoresBuilder(h) ==
    /\ phase[h] = "handle"
    /\ kind[h] = "Future"
    /\ drives[h] < MaxDrives
    /\ \E ok \in SubmitAnswers(h), fast \in RaceAnswers(h), late \in LateAnswers(h) :
        LET taken == builder[h]
            submits == IsSome(taken)
            ws1 == IF submits /\ ok
                   THEN ExecRace(ExecSubmit(workers, "spawn", Unwrap(taken), h), fast)
                   ELSE workers
            hd1 == IF submits /\ ok THEN Some(Len(ws1)) ELSE handle[h]
            cs1 == IF submits
                   THEN Append(calls[h], SubmitCall("spawn", Unwrap(taken),
                                                    IF ok THEN Len(ws1) ELSE 0, ok))
                   ELSE calls[h]
            panic == (submits /\ ~ok) \/ ~IsSome(hd1)
            w == Unwrap(hd1)
            out == IF panic THEN "panic" ELSE ExecPollOutcome(ws1[w], late)
        IN  /\ builder' = [builder EXCEPT ![h] = IF submits /\ ~ok THEN taken ELSE None]
            /\ handle' = [handle EXCEPT ![h] = hd1]
            /\ calls' = [calls EXCEPT ![h] = cs1]
            /\ workers' = IF panic THEN ws1 ELSE [ws1 EXCEPT ![w] = ExecPolled(@)]
            /\ yielded' = IF out = "Ready"
                          THEN [yielded EXCEPT ![h] = Append(@, ws1[w].value)]
                          ELSE yielded
            /\ last' = [last EXCEPT ![h] = out]
    /\ drives' = [drives EXCEPT ![h] = @ + 1]
    /\ UNCHANGED << phase, kind, comp, dropped >>

\* Future for JoinHandle<Fut>::poll.
FuturePoll(h) ==
    /\ phase[h] = "handle"
    /\ kind[h] = "Future"
    /\ drives[h] < MaxDrives
    /\ \E ok \in SubmitAnswers(h), fast \in RaceAnswers(h), late \in LateAnswers(h) :
        LET taken == builder[h]
            submits == IsSome(taken)
            ws1 == IF submits /\ ok
                   THEN ExecRace(ExecSubmit(workers, "spawn", Unwrap(taken), h), fast)
                   ELSE workers
            hd1 == IF submits /\ ok THEN Some(Len(ws1)) ELSE handle[h]
            cs1 == IF submits
                   THEN Append(calls[h], SubmitCall("spawn", Unwrap(taken),
                                                    IF ok THEN Len(ws1) ELSE 0, ok))
                   ELSE calls[h]
            panic == (submits /\ ~ok) \/ ~IsSome(hd1)
            w == Unwrap(hd1)
            out == IF panic THEN "panic" ELSE ExecPollOutcome(ws1[w], late)
        IN  /\ builder' = [builder EXCEPT ![h] = None]
            /\ handle' = [handle EXCEPT ![h] = hd1]
            /\ calls' = [calls EXCEPT ![h] = cs1]
            /\ workers' = IF panic THEN ws1 ELSE [ws1 EXCEPT ![w] = ExecPolled(@)]
            /\ yielded' = IF out = "Ready"
                          THEN [yielded EXCEPT ![h] = Append(@, ws1[w].value)]
                          ELSE yielded
            /\ last' = [last EXCEPT ![h] = out]
    /\ drives' = [drives EXCEPT ![h] = @ + 1]
    /\ UNCHANGED << phase, kind, comp, dropped >>

\* Variant of FutureDrop that takes the worker handle out and lets it go without
\* cancel().
FutureDropNoCancel(h) ==
    /\ phase[h] = "handle"
    /\ kind[h] = "Future"
    /\ phase' = [phase EXCEPT ![h] = "dropped"]
    /\ handle' = [handle EXCEPT ![h] = None]
    /\ dropped' = [dropped EXCEPT ![h] = IF IsSome(handle[h]) THEN "ok" ELSE "panic"]
    /\ UNCHANGED << kind, comp, builder, workers, calls, yielded, last, drives >>

\* PinnedDrop for JoinHandle<Fut>::drop.
FutureDrop(h) ==
    /\ phase[h] = "handle"
    /\ kind[h] = "Future"
    /\ phase' = [phase EXCEPT ![h] = "dropped"]
    /\ handle' = [handle EXCEPT ![h] = None]
    /\ IF IsSome(handle[h])
       THEN /\ workers' = [workers EXCEPT ![Unwrap(handle[h])] = ExecCancel(@)]
            /\ calls' = [calls EXCEPT ![h] = Append(@, CancelCall(Unwrap(handle[h])))]
            /\ dropped' = [dropped EXCEPT ![h] = "ok"]
       ELSE /\ dropped' = [dropped EXCEPT ![h] = "panic"]
            /\ UNCHANGED << workers, calls >>
    /\ UNCHANGED << kind, comp, builder, yielded, last, drives >>

(***************************************************************************)
(* The executor runs a submitted computation to its end.                   *)
(***************************************************************************)
WorkerStep(w) ==
    /\ w \in DOMAIN workers
    /\ workers[w].st = "running"
    /\ workers' = [workers EXCEPT ![w].st = "done"]
    /\ UNCHANGED << phase, kind, comp, builder, handle, calls, yielded, last,
                    drives, dropped >>

Next ==
    \/ \E h \in Handles, v \in Values : Spawn(h, v)
    \/ \E h \in Handles, v \in Values : SpawnLocal(h, v)
    \/ \E h \in Handles, n \in Names : Name(h, n)
    \/ \E h \in Handles : IntoFutureNonLocal(h)
    \/ \E h \in Handles : IntoFutureLocal(h)
    \/ \E h \in Handles : PollLocal(h)
    \/ \E h \in Handles : PollNonLocal(h)
    \/ \E h \in Handles : Drop(h)
    \/ \E h \in Handles : Detach(h)
    \/ \E h \in Handles, v \in Values : FutureSpawn(h, v)
    \/ \E h \in Handles, n \in Names : FutureName(h, n)
    \/ \E h \in Handles : FutureIntoFuture(h)
    \/ \E h \in Handles : FuturePoll(h)
    \/ \E h \in Handles : FutureDrop(h)
    \/ \E w \in DOMAIN workers : WorkerStep(w)

Spec == Init /\ [][Next]_vars

(***************************************************************************)
(* What the executor has seen of handle h.                                 *)
(***************************************************************************)
SubmitCalls(h) == {i \in DOMAIN calls[h] : calls[h][i].op \in {"spawn", "local"}}
CancelCalls(h) == {i \in DOMAIN calls[h] : calls[h][i].op = "cancel"}
SubmittedIds(h) == {calls[h][i].w : i \in {j \in SubmitCalls(h) : calls[h][j].ok}}
TasksOf(h) == {w \in DOMAIN workers : workers[w].owner = h}

\* C1 (laziness): as long as a handle was never polled, whatever spawn, name and
\* into_future did before, the executor has received no submit for it and no
\* task of it exists.
Laziness ==
    \A h \in Handles :
        drives[h] = 0 => SubmitCalls(h) = {} /\ TasksOf(h) = {}

\* A named builder was turned into a handle that has not been polled.
LazinessWitness ==
    \E h \in Handles :
        /\ phase[h] = "handle" /\ drives[h] = 0
        /\ IsSome(builder[h]) /\ IsSome(Unwrap(builder[h]).name)

\* C2 (cancel on early drop, dispatched): a handle that was dispatched, has not
\* yielded its result and is dropped has made exactly one cancel call, on the
\* worker handle its own submit returned, and that worker got no other cancel.
CancelOnDispatchedDrop ==
    \A h \in Handles :
        (phase[h] = "dropped" /\ SubmittedIds(h) # {} /\ yielded[h] = << >>) =>
            /\ Cardinality(CancelCalls(h)) = 1
            /\ \A i \in CancelCalls(h) :
                /\ calls[h][i].w \in SubmittedIds(h)
                /\ workers[calls[h][i].w].owner = h
                /\ workers[calls[h][i].w].cancels = 1

\* A handle polled while its task was running was dropped and its task cancelled.
CancelOnDispatchedDropWitness ==
    \E h \in Handles :
        /\ phase[h] = "dropped" /\ SubmittedIds(h) # {} /\ yielded[h] = << >>
        /\ last[h] = "Pending"
        /\ \E w \in TasksOf(h) : workers[w].st = "cancelled"
        /\ \E g \in Handles : g # h /\ TasksOf(g) # {}

\* C3 (drop of a pending handle): a handle dropped before any poll ends its drop
\* normally and makes no cancel call.
PendingDropIsNoop ==
    \A h \in Handles :
        (phase[h] = "dropped" /\ drives[h] = 0) =>
            dropped[h] = "ok" /\ CancelCalls(h) = {}

\* C4 (cancel on early drop, pending): a handle dropped before any poll has made
\* no submit call, pooled or same-context, and no task of it exists.
PendingDropNeverSubmits ==
    \A h \in Handles :
        (phase[h] = "dropped" /\ drives[h] = 0) =>
            /\ \A i \in DOMAIN calls[h] : calls[h][i].op \notin {"spawn", "local"}
            /\ \A w \in DOMAIN workers : workers[w].owner # h

\* A handle was dropped without having been polled.
PendingDropNeverSubmitsWitness ==
    \E h \in Handles :
        phase[h] = "dropped" /\ drives[h] = 0 /\ kind[h] \in {"Local", "NonLocal"}

\* C5 (single dispatch): a handle polled N >= 1 times has made exactly one
\* submit call, and one polled 0 times none: the submit is made by the first poll.
SingleDispatch ==
    \A h \in Handles :
        /\ Cardinality(SubmitCalls(h)) = (IF drives[h] = 0 THEN 0 ELSE 1)
        /\ Cardinality(TasksOf(h)) <= 1

\* A handle was polled more than once, the worker finishing in between.
SingleDispatchWitness ==
    \E h \in Handles :
        /\ drives[h] >= 2 /\ last[h] = "Ready"
        /\ Cardinality(SubmitCalls(h)) = 1

\* C6 (result fidelity): every value a poll returns in Ready is the value the
\* computation given to spawn or spawn_local returns.
ResultFidelity ==
    \A h \in Handles :
        /\ \A i \in DOMAIN yielded[h] : yielded[h][i] = comp[h]
        /\ last[h] = "Ready" => yielded[h] # << >>

\* A pooled and a same-context handle with different values both returned Ready.
ResultFidelityWitness ==
    \E h \in Handles, g \in Handles :
        /\ kind[h] = "Local" /\ kind[g] = "NonLocal"
        /\ comp[h] # comp[g]
        /\ yielded[h] = << comp[h] >> /\ yielded[g] = << comp[g] >>

\* C7 as stated: a handle dropped after it returned Ready has made no cancel call.
NoCancelAfterReady ==
    \A h \in Handles :
        (phase[h] = "dropped" /\ yielded[h] # << >>) => CancelCalls(h) = {}

\* C7 as amended: a handle dropped after it returned Ready has made exactly one
\* cancel call, on its own worker handle; the worker had finished and its
\* output had been taken, and the cancel changes neither.
CancelAfterReadyIsNoop ==
    \A h \in Handles :
        (phase[h] = "dropped" /\ yielded[h] # << >>) =>
            /\ Cardinality(CancelCalls(h)) = 1
            /\ \A i \in CancelCalls(h) :
                /\ calls[h][i].w \in SubmittedIds(h)
                /\ workers[calls[h][i].w].st = "taken"
                /\ workers[calls[h][i].w].cancels = 1
            /\ yielded[h] = << comp[h] >>

\* A handle was dropped after it returned Ready.
CancelAfterReadyWitness ==
    \E h \in Handles :
        phase[h] = "dropped" /\ yielded[h] # << >> /\ dropped[h] = "ok"

\* C8 as stated: Ready is returned at most once, once when the handle was driven
\* to completion, and the completed worker handle is never polled again.
ResultOnceThenFinished ==
    \A h \in Handles :
        /\ Len(yielded[h]) <= 1
        /\ last[h] = "Ready" => Len(yielded[h]) = 1
        /\ \A w \in TasksOf(h) : workers[w].latePolls = 0

\* C8 as amended: Ready is returned at most once, once when the handle was driven
\* to completion; the handle keeps its worker handle, and a poll after Ready
\* polls the completed worker handle again, returns what that poll returns
\* (never a second Ready) and makes no call on the executor.
ResultOnceThenRepolled ==
    /\ [](\A h \in Handles :
            /\ Len(yielded[h]) <= 1
            /\ last[h] = "Ready" => Len(yielded[h]) = 1)
    /\ [][\A h \in Handles :
            (yielded[h] # << >> /\ drives'[h] # drives[h]) =>
                /\ IsSome(handle[h]) /\ handle'[h] = handle[h]
                /\ workers'[Unwrap(handle[h])].latePolls
                       = workers[Unwrap(handle[h])].latePolls + 1
                /\ last'[h] \in LateOutcomes
                /\ yielded'[h] = yielded[h]
                /\ calls'[h] = calls[h]]_vars

\* A handle that returned Ready was polled again.
ResultOnceThenRepolledWitness ==
    \E h \in Handles :
        /\ yielded[h] # << >> /\ last[h] # "Ready"
        /\ \E w \in TasksOf(h) : workers[w].latePolls >= 1

\* C9 (detach): after detach() the task of the handle is running or has run to
\* completion, and was not cancelled.
DetachedTaskRuns ==
    \A h \in Handles :
        phase[h] = "detached" =>
            /\ CancelCalls(h) = {}
            /\ \E w \in TasksOf(h) : workers[w].st \in {"running", "done", "taken"}

SubmitOpOf(k) == IF k = "Local" THEN "local" ELSE "spawn"

\* C12 (mode isolation): every submit call of a handle built with spawn_local is
\* the same-context one, every submit call of a handle built with spawn the
\* pooled one, and likewise the task the executor holds; once spawn or
\* spawn_local has given a value its kind, no step changes it.
ModeIsolation ==
    /\ [](\A h \in Handles :
            /\ \A i \in SubmitCalls(h) : calls[h][i].op = SubmitOpOf(kind[h])
            /\ \A w \in TasksOf(h) : workers[w].op = SubmitOpOf(kind[h]))
    /\ [][\A h \in Handles : kind[h] # "unset" => kind'[h] = kind[h]]_vars

\* A named same-context handle and a pooled handle were both submitted.
ModeIsolationWitness ==
    \E h \in Handles, g \in Handles :
        /\ kind[h] = "Local" /\ kind[g] = "NonLocal"
        /\ \E w \in TasksOf(h) : workers[w].op = "local" /\ IsSome(workers[w].name)
        /\ \E w \in TasksOf(g) : workers[w].op = "spawn"

\* The submit call of handle h failed.
SubmitFailed(h) == \E i \in SubmitCalls(h) : ~calls[h][i].ok

\* The handle value still exists in memory (detach forgets it, it is never freed).
Live(h) == phase[h] \in {"handle", "detached"}

\* C13 as stated: a live handle has exactly one of the builder slot and the
\* worker-handle slot populated, and once it has had a worker handle its
\* builder slot is empty.
ExactlyOneSlot ==
    \A h \in Handles :
        Live(h) =>
            /\ IsSome(builder[h]) # IsSome(handle[h])
            /\ SubmittedIds(h) # {} => builder[h] = None

\* C13 as amended: a live handle never has both slots populated; it has neither
\* exactly when its submission failed (the builder was taken out before the
\* unwrap panicked), and exactly one otherwise; once it has had a worker handle
\* its builder slot is empty.
SlotsExclusive ==
    \A h \in Handles :
        Live(h) =>
            /\ ~(IsSome(builder[h]) /\ IsSome(handle[h]))
            /\ (~IsSome(builder[h]) /\ ~IsSome(handle[h])) <=> SubmitFailed(h)
            /\ SubmittedIds(h) # {} => builder[h] = None /\ IsSome(handle[h])

\* One handle lost both slots to a failed submission, another holds a worker handle.
SlotsExclusiveWitness ==
    \E h \in Handles, g \in Handles :
        /\ phase[h] = "handle" /\ SubmitFailed(h)
        /\ builder[h] = None /\ handle[h] = None
        /\ phase[g] = "handle" /\ IsSome(handle[g]) /\ builder[g] = None

\* C14 (cancellation only by destruction): a handle that has not been dropped,
\* whatever was done with it (name, into_future, poll, detach), has made no
\* cancel call and its task has received none.
CancelOnlyFromDrop ==
    \A h \in Handles :
        phase[h] # "dropped" =>
            /\ CancelCalls(h) = {}
            /\ \A w \in TasksOf(h) : workers[w].cancels = 0 /\ workers[w].st # "cancelled"

\* A polled handle was detached with its task uncancelled; another was dropped
\* and cancelled its task.
CancelOnlyFromDropWitness ==
    \E h \in Handles, g \in Handles :
        /\ phase[h] = "detached" /\ drives[h] >= 2
        /\ \E w \in TasksOf(h) : workers[w].cancels = 0
        /\ phase[g] = "dropped" /\ CancelCalls(g) # {}

\* The executor has advanced or answered a poll of task w.
Progressed(w) == workers[w].st \in {"done", "taken"} \/ workers[w].latePolls > 0

\* C15 (ordering): a task the executor runs, has advanced or has been polled
\* through a handle was submitted before, by the handle that owns it; and when
\* a poll has returned Ready the computation had completed and it is its
\* output that was returned.
Ordering ==
    /\ \A w \in DOMAIN workers : w \in SubmittedIds(workers[w].owner)
    /\ \A h \in Handles :
        /\ IsSome(handle[h]) => Unwrap(handle[h]) \in SubmittedIds(h)
        /\ \A i \in DOMAIN yielded[h] :
            \E w \in SubmittedIds(h) :
                /\ workers[w].st = "taken"
                /\ workers[w].value = yielded[h][i]

\* One handle got Ready from its first poll (the pooled task won the race),
\* another from a later poll after a poll that returned Pending.
OrderingWitness ==
    \E h \in Handles, g \in Handles :
        /\ drives[h] = 1 /\ last[h] = "Ready" /\ \E w \in TasksOf(h) : Progressed(w)
        /\ kind[g] = "Local" /\ drives[g] = 2 /\ last[g] = "Ready"

\* C16 as stated: every drive of a live handle has returned Pending or Ready,
\* Pending only when the worker had not produced its result, Ready only when
\* it had.
DriveReturnsPendingOrReady ==
    \A h \in Handles :
        (phase[h] = "handle" /\ drives[h] >= 1) =>
            /\ last[h] \in {"Pending", "Ready"}
            /\ last[h] = "Pending" => \A w \in TasksOf(h) : workers[w].st # "taken"
            /\ last[h] = "Ready" => \E w \in TasksOf(h) : workers[w].st = "taken"

\* C16 as amended: a drive that ends with a worker handle in the handle,
\* the first one included, polls that worker handle in the same call and
\* returns its answer: Pending exactly when the worker is still running at
\* that poll, Ready with the worker's output exactly when it has finished and
\* its output was not taken before; a poll of a worker whose output was taken
\* before returns the executor's answer to that, never Ready.  A drive that
\* ends without a worker handle (the submission failed, now or before)
\* panics and returns nothing.
DriveReturnsWorkerPoll ==
    [][\A h \in Handles :
        drives'[h] # drives[h] =>
            IF ~IsSome(handle'[h])
            THEN /\ last'[h] = "panic"
                 /\ yielded'[h] = yielded[h]
                 /\ SubmitFailed(h)'
            ELSE LET w == Unwrap(handle'[h])
                     wasTaken == w \in DOMAIN workers /\ workers[w].st = "taken"
                 IN  IF wasTaken
                     THEN /\ last'[h] \in LateOutcomes
                          /\ yielded'[h] = yielded[h]
                          /\ workers'[w].latePolls = workers[w].latePolls + 1
                     ELSE /\ workers'[w].st \in {"running", "taken"}
                          /\ last'[h] = "Pending" <=> workers'[w].st = "running"
                          /\ last'[h] = "Ready" <=> workers'[w].st = "taken"
                          /\ last'[h] = "Ready" =>
                                yielded'[h] = Append(yielded[h], workers'[w].value)
                          /\ last'[h] = "Pending" => yielded'[h] = yielded[h]]_vars

\* A first poll returned Ready, another first poll Pending, both after a
\* submission by that same poll.
DriveReturnsWorkerPollWitness ==
    \E h \in Handles, g \in Handles :
        /\ drives[h] = 1 /\ last[h] = "Ready" /\ yielded[h] = << comp[h] >>
        /\ drives[g] = 1 /\ last[g] = "Pending" /\ SubmittedIds(g) # {}

\* C18 (submission failure is fatal): a handle whose submission failed has never
\* returned Ready, then or later, and its last drive returned neither Pending
\* nor Ready: it panicked.
SubmitFailureIsFatal ==
    \A h \in Handles :
        SubmitFailed(h) =>
            /\ drives[h] >= 1
            /\ last[h] = "panic"
            /\ yielded[h] = << >>

\* A handle whose submission failed was driven again.
SubmitFailureIsFatalWitness ==
    \E h \in Handles :
        SubmitFailed(h) /\ phase[h] = "handle" /\ drives[h] >= 2

\* C19 (after a failed submission): the handle has neither a builder nor a worker
\* handle, it has made that one submit call and no other, no task of it
\* exists, and its drop has found no worker handle and made no cancel call.
FailedSubmitLeavesNothing ==
    \A h \in Handles :
        SubmitFailed(h) =>
            /\ builder[h] = None /\ handle[h] = None
            /\ Cardinality(SubmitCalls(h)) = 1
            /\ TasksOf(h) = {}
            /\ CancelCalls(h) = {}
            /\ dropped[h] # "ok"

\* A handle whose submission failed was driven again and then dropped.
FailedSubmitLeavesNothingWitness ==
    \E h \in Handles :
        SubmitFailed(h) /\ phase[h] = "dropped" /\ drives[h] >= 2

(***************************************************************************)
(* Liveness.  The caller polls a handle a first time and then whenever the *)
(* worker handle has woken it, which it does when the task has finished;   *)
(* the executor runs every task it has accepted.                           *)
(***************************************************************************)

\* The waker given to the worker handle's poll has been called: the task has
\* finished and its output waits to be taken.
Woken(h) == IsSome(handle[h]) /\ workers[Unwrap(handle[h])].st = "done"

\* A poll of handle h, whichever implementation it is.
Drive(h) == PollLocal(h) \/ PollNonLocal(h) \/ FuturePoll(h)

\* The ids the executor can have given out.
WorkerIds == 1 .. (Cardinality(Handles) * MaxDrives)

\* The caller polls handle h now: it has not polled it yet, or was woken.
Polls(h) == drives[h] = 0 \/ Woken(h)

LiveNext ==
    \/ \E h \in Handles, v \in Values : Spawn(h, v)
    \/ \E h \in Handles, v \in Values : SpawnLocal(h, v)
    \/ \E h \in Handles, n \in Names : Name(h, n)
    \/ \E h \in Handles : IntoFutureNonLocal(h)
    \/ \E h \in Handles : IntoFutureLocal(h)
    \/ \E h \in Handles : Polls(h) /\ PollLocal(h)
    \/ \E h \in Handles : Polls(h) /\ PollNonLocal(h)
    \/ \E h \in Handles : Drop(h)
    \/ \E h \in Handles : Detach(h)
    \/ \E h \in Handles, v \in Values : FutureSpawn(h, v)
    \/ \E h \in Handles, n \in Names : FutureName(h, n)
    \/ \E h \in Handles : FutureIntoFuture(h)
    \/ \E h \in Handles : Polls(h) /\ FuturePoll(h)
    \/ \E h \in Handles : FutureDrop(h)
    \/ \E w \in DOMAIN workers : WorkerStep(w)

LiveSpec ==
    /\ Init
    /\ [][LiveNext]_vars
    /\ \A w \in WorkerIds : WF_vars(WorkerStep(w))
    /\ \A h \in Handles : WF_vars(Woken(h) /\ Drive(h))

\* C17 (liveness): a handle that was driven and whose computation the executor
\* runs returns Ready eventually, unless it is dropped or detached first.
EventuallyReady ==
    \A h \in Handles :
        (drives[h] >= 1 /\ SubmittedIds(h) # {})
            ~> (yielded[h] # << >> \/ phase[h] \in {"dropped", "detached"})

\* A handle was polled once, woken, polled again and returned Ready.
EventuallyReadyWitness ==
    \E h \in Handles :
        /\ phase[h] = "handle" /\ kind[h] = "Local"
        /\ drives[h] = 2 /\ yielded[h] = << comp[h] >>

(***************************************************************************)
(* Two handles side by side.  Handle 1 leads: it takes any step.  Handle 2 *)
(* follows: it repeats the operation handle 1 has just made (the same      *)
(* call by the caller, on the same computation) and the executor treats    *)
(* its task as it treated the other (accepts or refuses the submission,    *)
(* finishes the task at the same point, answers a late poll alike).  What  *)
(* kind of handle each is and which names it is given is left open.        *)
(***************************************************************************)
Leader == 1
Follower == 2

\* The computation of handle h has run to its end.
Finished(h) == \E w \in TasksOf(h) : workers[w].st \in {"done", "taken"}

\* What the caller has asked of handle h and what the executor decided for it.
Asked(h) ==
    [phase |-> phase[h], comp |-> comp[h], drives |-> drives[h],
     finished |-> Finished(h), refused |-> SubmitFailed(h)]

InStep == Asked(Leader) = Asked(Follower)

\* Handle h may take a step: the leader when the follower has caught up, the
\* follower when it has not.
Turn(h) == IF h = Leader THEN InStep ELSE ~InStep

\* The step has brought the follower where the leader is, the executor answering
\* a poll of a worker handle whose output was taken as it answered the leader.
Follows(h) ==
    h = Follower =>
        /\ Asked(Follower)' = Asked(Leader)
        /\ (IsSome(handle[h]) /\ workers[Unwrap(handle[h])].st = "taken")
                => last'[h] = last[Leader]

LockNext ==
    \/ \E h \in Handles, v \in Values : Turn(h) /\ Spawn(h, v) /\ Follows(h)
    \/ \E h \in Handles, v \in Values : Turn(h) /\ SpawnLocal(h, v) /\ Follows(h)
    \/ \E h \in Handles, n \in Names : InStep /\ Name(h, n)
    \/ \E h \in Handles : Turn(h) /\ IntoFutureNonLocal(h) /\ Follows(h)
    \/ \E h \in Handles : Turn(h) /\ IntoFutureLocal(h) /\ Follows(h)
    \/ \E h \in Handles : Turn(h) /\ PollLocal(h) /\ Follows(h)
    \/ \E h \in Handles : Turn(h) /\ PollNonLocal(h) /\ Follows(h)
    \/ \E h \in Handles : Turn(h) /\ Drop(h) /\ Follows(h)
    \/ \E h \in Handles : Turn(h) /\ Detach(h) /\ Follows(h)
    \/ \E h \in Handles, v \in Values : Turn(h) /\ FutureSpawn(h, v) /\ Follows(h)
    \/ \E h \in Handles, n \in Names : InStep /\ FutureName(h, n)
    \/ \E h \in Handles : Turn(h) /\ FutureIntoFuture(h) /\ Follows(h)
    \/ \E h \in Handles : Turn(h) /\ FuturePoll(h) /\ Follows(h)
    \/ \E h \in Handles : Turn(h) /\ FutureDrop(h) /\ Follows(h)
    \/ \E w \in DOMAIN workers :
        Turn(workers[w].owner) /\ WorkerStep(w) /\ Follows(workers[w].owner)

LockSpec == Init /\ [][LockNext]_vars

\* The name handle h was given, as long as it can be told: from the builder
\* while it is there, from the submit call afterwards.
GivenName(h) ==
    IF IsSome(builder[h]) THEN Unwrap(builder[h]).name
    ELSE IF SubmitCalls(h) # {} THEN calls[h][CHOOSE i \in SubmitCalls(h) : TRUE].name
    ELSE None

\* The calls handle h made on the executor, in order: which operation, whether
\* it succeeded, whether it was on the handle's own worker handle; with the
\* name passed (names) or without.
CallsView(h, names) ==
    [i \in DOMAIN calls[h] |->
        [op |-> calls[h][i].op,
         ok |-> calls[h][i].ok,
         own |-> ~calls[h][i].ok \/ calls[h][i].w \in SubmittedIds(h),
         name |-> IF names THEN calls[h][i].name ELSE None]]

\* The same with the submission operation left out.
OpBlind(cs) ==
    [i \in DOMAIN cs |->
        [cs[i] EXCEPT !.op = IF @ = "cancel" THEN "cancel" ELSE "submit"]]

\* What the caller and the executor see of handle h, apart from its calls.
Seen(h) ==
    [phase |-> phase[h], last |-> last[h], yielded |-> yielded[h],
     dropped |-> dropped[h], builder |-> IsSome(builder[h]),
     handle |-> IsSome(handle[h]),
     tasks |-> {[st |-> workers[w].st, cancels |-> workers[w].cancels,
                 latePolls |-> workers[w].latePolls, value |-> workers[w].value]
                    : w \in TasksOf(h)}]

\* C11 (naming is inert): two handles of the same mode built from the same
\* computation, whatever names they were given, after the same operations and
\* the same worker steps have returned the same drive results and made the
\* same submit and cancel calls in the same order; the calls differ at most
\* in the name passed, which is the name the task carries.  The second handle
\* can always repeat what the first did.
NamingIsInert ==
    /\ (InStep /\ kind[Leader] = kind[Follower]) =>
            /\ Seen(Leader) = Seen(Follower)
            /\ CallsView(Leader, FALSE) = CallsView(Follower, FALSE)
    /\ (~InStep /\ kind[Leader] = kind[Follower]) => ENABLED LockNext
    /\ \A w \in DOMAIN workers :
            \E i \in SubmitCalls(workers[w].owner) :
                /\ calls[workers[w].owner][i].w = w
                /\ calls[workers[w].owner][i].name = workers[w].name

\* A named and an unnamed handle of the same mode were both polled to Ready
\* and dropped.
NamingIsInertWitness ==
    /\ InStep /\ kind[Leader] = kind[Follower]
    /\ GivenName(Leader) # GivenName(Follower)
    /\ phase[Leader] = "dropped" /\ phase[Follower] = "dropped"
    /\ yielded[Leader] # << >> /\ yielded[Follower] # << >>

\* The executor cannot treat the follower's task as it treated the leader's: the
\* leader's pooled task had finished when the poll that submitted it polled
\* it, which a same-context task never has.
LeaderWonRace ==
    /\ kind[Follower] = "Local"
    /\ drives[Leader] = 1 /\ drives[Follower] = 0
    /\ Finished(Leader)

\* C20 (one state machine): two handles of different implementations (lib.rs
\* Local, lib.rs NonLocal, future.rs) built from the same computation with the
\* same name, after the same drive and drop operations and the same worker
\* outcomes, have returned the same drive results and made the same submit
\* and cancel calls in the same order, apart from which submission operation
\* was called; and the one can repeat every drive and drop of the other
\* whenever the executor can treat its task alike.
SameStateMachine ==
    /\ (InStep /\ kind[Leader] # kind[Follower]
               /\ GivenName(Leader) = GivenName(Follower)) =>
            /\ Seen(Leader) = Seen(Follower)
            /\ OpBlind(CallsView(Leader, TRUE)) = OpBlind(CallsView(Follower, TRUE))
    /\ (~InStep /\ kind[Follower] # "unset" /\ phase[Leader] # "detached"
                /\ ~LeaderWonRace) => ENABLED LockNext

\* A same-context handle of lib.rs and a handle of future.rs, named alike, were
\* both polled to Ready, polled again and dropped.
SameStateMachineWitness ==
    /\ InStep
    /\ kind[Leader] = "Local" /\ kind[Follower] = "Future"
    /\ IsSome(GivenName(Leader)) /\ GivenName(Leader) = GivenName(Follower)
    /\ phase[Leader] = "dropped" /\ phase[Follower] = "dropped"
    /\ drives[Follower] = 3 /\ yielded[Follower] # << >>
    /\ \E i \in SubmitCalls(Leader) : calls[Leader][i].op = "local"
    /\ \E i \in SubmitCalls(Follower) : calls[Follower][i].op = "spawn"

====
